---- MODULE Spec2Model ----
(***************************************************************************)
(* Model of jwst.model_blender.blendrules (the keyword-rule engine) and of *)
(* jwst.ami.ami_analyze_step.AmiAnalyzeStep.process.                       *)
(*                                                                         *)
(* Python strings are sequences of one-character strings, so that the     *)
(* substring tests of the code ('rule' in line_spec, 'meta' in attr) are   *)
(* computed rather than assumed.  Python values are pairs <<tag, payload>>.*)
(***************************************************************************)
EXTENDS Integers, Sequences, FiniteSets, TLC

\* ---------------------------------------------------------------- strings

s_meta == <<"m", "e", "t", "a">>
s_items == <<"i", "t", "e", "m", "s">>
s_anyOf == <<"a", "n", "y", "O", "f">>
s_oneOf == <<"o", "n", "e", "O", "f">>
s_rule == <<"r", "u", "l", "e">>
s_data == <<"d", "a", "t", "a">>
s_MULTIPLE == <<"M", "U", "L", "T", "I", "P", "L", "E">>
s_bogus == <<"b", "o", "g", "u", "s">>
s_KW == <<"K", "W">>
s_a == <<"a">>
s_b == <<"b">>
s_dot == <<".">>
s_empty == << >>

n_first == <<"f", "i", "r", "s", "t">>
n_last == <<"l", "a", "s", "t">>
n_multi == <<"m", "u", "l", "t", "i">>
n_mean == <<"m", "e", "a", "n">>
n_sum == <<"s", "u", "m">>
n_max == <<"m", "a", "x">>
n_min == <<"m", "i", "n">>
n_mintime == <<"m", "i", "n", "t", "i", "m", "e">>
n_maxtime == <<"m", "a", "x", "t", "i", "m", "e">>
n_mindate == <<"m", "i", "n", "d", "a", "t", "e">>
n_maxdate == <<"m", "a", "x", "d", "a", "t", "e">>
n_mindatetime == <<"m", "i", "n", "d", "a", "t", "e", "t", "i", "m", "e">>
n_maxdatetime == <<"m", "a", "x", "d", "a", "t", "e", "t", "i", "m", "e">>

\* str.__contains__: sub occurs in s as a contiguous substring
Contains(sub, s) ==
  \E i \in 0..(Len(s) - Len(sub)) : SubSeq(s, i + 1, i + Len(sub)) = sub

\* list.__contains__ / list.index for a list of path segments
InList(x, l) == \E i \in 1..Len(l) : l[i] = x

IndexOf(x, l) == CHOOSE i \in 1..Len(l) : l[i] = x /\ \A j \in 1..(i - 1) : l[j] # x

\* '.'.join(path)
RECURSIVE Join(_)
Join(path) ==
  IF Len(path) = 0 THEN s_empty
  ELSE IF Len(path) = 1 THEN path[1]
  ELSE path[1] \o s_dot \o Join(Tail(path))

\* ---------------------------------------------------------------- values
None == <<"None", 0>>

PyInt(n) == <<"int", n>>

PyFloat(num, den) == <<"float", <<num, den>>>>

PyStr(s) == <<"str", s>>

\* ------------------------------------------------- reduction functions
\* the names of the callables the registry maps to; NoFunc is Python's None
NoFunc == "None"

blender_funcs ==
  (n_first :> "first")
  @@ (n_last :> "last")
  @@ (n_multi :> "multi")
  @@ (n_mean :> "np.mean")
  @@ (n_sum :> "np.sum")
  @@ (n_max :> "np.max")
  @@ (n_min :> "np.min")
  @@ (n_mintime :> "min")
  @@ (n_maxtime :> "max")
  @@ (n_mindate :> "min")
  @@ (n_maxdate :> "max")
  @@ (n_mindatetime :> "min")
  @@ (n_maxdatetime :> "max")


\* multi as it would be counting the values instead of the unique values
multi_len(vals) ==
  IF Len(vals) = 0 THEN None
  ELSE IF Len(vals) = 1 THEN vals[1]
  ELSE PyStr(s_MULTIPLE)

\* multi(vals): the common value of a list of identical values, or 'MULTIPLE'
multi(vals) ==
  LET uniq_vals == {vals[i] : i \in 1..Len(vals)}
      num_vals == Cardinality(uniq_vals)
  IN  IF num_vals = 0 THEN None
      ELSE IF num_vals = 1 THEN CHOOSE v \in uniq_vals : TRUE
      ELSE PyStr(s_MULTIPLE)

\* first(items)
first(items) == IF Len(items) # 0 THEN items[1] ELSE None

\* last(items)
last(items) == IF Len(items) # 0 THEN items[Len(items)] ELSE None

\* ------------------------------------------------------ rule interpretation
\* A raw line_spec is either a dict (keys: its key set, val: the value under
\* 'rule' when that key is present) or a plain string (val: the string).
DictSpec(keys, name) == [type |-> "dict", keys |-> keys, val |-> name]

StrSpec(s) == [type |-> "str", keys |-> {}, val |-> s]

\* a raw rule spec {attr: line_spec}
Line(attr, line_spec) == [attr |-> attr, spec |-> line_spec]

\* 'rule' in line_spec: key membership for a dict, substring test for a str
HasRule(line_spec) ==
  IF line_spec.type = "dict" THEN s_rule \in line_spec.keys
  ELSE Contains(s_rule, line_spec.val)

\* interpret_attr_line as it would be if an unregistered name took the
\* function-less branch
interpret_attr_line_pair(attr, line_spec) ==
  LET kw1 == attr
      kw2 == IF line_spec.type = "dict" THEN attr ELSE line_spec.val
  IN  IF HasRule(line_spec) /\ line_spec.type = "str"
        THEN [exc |-> "TypeError", rules |-> << >>]
      ELSE IF HasRule(line_spec) /\ line_spec.val \in DOMAIN blender_funcs
        THEN [exc |-> "", rules |-> << <<kw1, kw2, blender_funcs[line_spec.val]>> >>]
      ELSE [exc |-> "", rules |-> << <<kw1, kw2>> >>]

\* interpret_attr_line(attr, line_spec): the compiled rules, or the exception
\* raised.  zip(kws, kws2) pairs the single attr with the single target.
interpret_attr_line(attr, line_spec) ==
  LET kw1 == attr
      kw2 == IF line_spec.type = "dict" THEN attr ELSE line_spec.val
  IN  IF HasRule(line_spec) /\ line_spec.type = "str"
        THEN \* line_spec['rule'] on a str: string indices must be integers
             [exc |-> "TypeError", rules |-> << >>]
      ELSE IF HasRule(line_spec) /\ Len(line_spec.val) > 0
        THEN LET lrule == IF line_spec.val \in DOMAIN blender_funcs
                            THEN blender_funcs[line_spec.val]
                            ELSE NoFunc
             IN  [exc |-> "", rules |-> << <<kw1, kw2, lrule>> >>]
      ELSE [exc |-> "", rules |-> << <<kw1, kw2>> >>]

\* interpret_entry(line, hdr): (rules, section_name); section_name stays None
interpret_entry(line, hdr) ==
  LET r == interpret_attr_line(line.attr, line.spec)
  IN  [exc |-> r.exc, rules |-> r.rules, sname |-> None]

\* KwRule(line)
KwRule(line) == [rule_spec |-> line, rules |-> << >>, section_name |-> << >>, exc |-> ""]

\* KwRule.interpret(hdr): a no-op once self.rules is non-empty
KwRule_interpret(kwr, hdr) ==
  IF kwr.exc # "" \/ Len(kwr.rules) > 0 THEN kwr
  ELSE LET e == interpret_entry(kwr.rule_spec, hdr)
       IN  IF e.exc # "" THEN [kwr EXCEPT !.exc = e.exc]
           ELSE [kwr EXCEPT !.rules = IF Len(e.rules) > 0 THEN e.rules ELSE @]

\* for hdr in hdrs: kwr.interpret(hdr)
RECURSIVE InterpretAll(_, _)
InterpretAll(kwr, hdrs) ==
  IF Len(hdrs) = 0 THEN kwr
  ELSE InterpretAll(KwRule_interpret(kwr, Head(hdrs)), Tail(hdrs))


\* ------------------------------------------------------ schema rule extractor
\* An OrderedDict is a sequence of <<key, value>> pairs in insertion order.
DictHas(d, k) == \E i \in 1..Len(d) : d[i][1] = k

DictGet(d, k, default) ==
  IF DictHas(d, k) THEN d[CHOOSE i \in 1..Len(d) : d[i][1] = k][2] ELSE default

DictSet(d, k, v) ==
  IF DictHas(d, k) THEN [i \in 1..Len(d) |-> IF d[i][1] = k THEN <<k, v>> ELSE d[i]]
  ELSE Append(d, <<k, v>>)

\* A schema node as the callback reads it: properties (truthy or not),
\* blend_rule ('' when absent), blend_table (truthy or not), fits_keyword
\* (has_kw says whether the key is present).
Subschema(props, kwrule, kwtab, has_kw, kw) ==
  [properties |-> props, blend_rule |-> kwrule, blend_table |-> kwtab,
   has_kw |-> has_kw, fits_keyword |-> kw]

\* the guard of build_rules_dict: only elements of the meta component
InMeta(path) == Len(path) > 1 /\ path[1] = s_meta /\ ~InList(s_items, path)

\* for combiner in ['anyOf', 'oneOf']: cut the path at the first one present
StripCombiner(path) ==
  IF InList(s_anyOf, path) THEN SubSeq(path, 1, IndexOf(s_anyOf, path) - 1)
  ELSE IF InList(s_oneOf, path) THEN SubSeq(path, 1, IndexOf(s_oneOf, path) - 1)
  ELSE path

AttrOf(path) == Join(StripCombiner(path))

\* whether the callback records anything for this node
Recorded(subschema, path) == InMeta(path) /\ ~subschema.properties

\* the elif as it would be without its test: a plain else
NothingRecorded_always(results, attr) == TRUE

\* the elif of build_rules_dict: nothing recorded yet for attr
NothingRecorded(results, attr) == Len(DictGet(results, attr, << >>)) = 0

\* rule_spec of build_rules_dict: kind is "explicit", "default" or "none"
RuleSpecOf(results, subschema, attr) ==
  IF Len(subschema.blend_rule) > 0
    THEN [kind |-> "explicit",
          spec |-> << Line(attr, DictSpec({s_rule}, subschema.blend_rule)) >>]
  ELSE IF NothingRecorded(results, attr)
    THEN [kind |-> "default",
          spec |-> << Line(attr, DictSpec({s_rule}, n_first)) >>]
  ELSE [kind |-> "none", spec |-> << >>]

\* build_rules_dict(subschema, path, ...): the new value of results
build_rules_dict(results, subschema, path) ==
  IF ~Recorded(subschema, path) THEN results
  ELSE LET attr == AttrOf(path)
           kwname == IF subschema.has_kw THEN subschema.fits_keyword ELSE attr
           result0 == DictGet(results, attr, << >>)
           result1 == result0 \o RuleSpecOf(results, subschema, attr).spec
           result2 == IF subschema.blend_table
                        THEN Append(result1, Line(attr, StrSpec(kwname)))
                        ELSE result1
       IN  IF Len(result2) > 0 THEN DictSet(results, attr, result2) ELSE results

\* _build_schema_rules_dict(schema): walk is the sequence of <<subschema, path>>
\* nodes in the order walk_schema visits them
RECURSIVE WalkFrom(_, _)
WalkFrom(results, walk) ==
  IF Len(walk) = 0 THEN results
  ELSE WalkFrom(build_rules_dict(results, Head(walk)[1], Head(walk)[2]), Tail(walk))

build_schema_rules_dict(walk) == WalkFrom(<< >>, walk)


\* ------------------------------------------------------------- KeywordRules
\* KeywordRules.__init__(model): walk is the walk of model._schema
KeywordRules(walk) ==
  [rule_specs |-> build_schema_rules_dict(walk), rule_objects |-> << >>, rules |-> << >>]

\* the raw specs of rule_specs in the order the two nested loops visit them
RECURSIVE SpecLines(_)
SpecLines(rule_specs) ==
  IF Len(rule_specs) = 0 THEN << >>
  ELSE Head(rule_specs)[2] \o SpecLines(Tail(rule_specs))

\* hdrs as passed: <<"list", seq>>, <<"tuple", seq>> or <<"single", hdr>>
NormaliseHdrs(arg) == IF arg[1] = "single" THEN << arg[2] >> ELSE arg[2]

\* the body of the loops of interpret_rules over the remaining raw specs;
\* an exception leaves self.rules as extended so far
RECURSIVE InterpretLines(_, _, _, _)
InterpretLines(rules, rule_objects, lines, hdrs) ==
  IF Len(lines) = 0 THEN [rules |-> rules, exc |-> ""]
  ELSE LET kwr == KwRule(Head(lines))
           duplicate_rule ==
             \E i \in 1..Len(rule_objects) : kwr.rule_spec = rule_objects[i].rule_spec
       IN  IF duplicate_rule THEN InterpretLines(rules, rule_objects, Tail(lines), hdrs)
           ELSE LET done == InterpretAll(kwr, hdrs)
                IN  IF done.exc # "" THEN [rules |-> rules, exc |-> done.exc]
                    ELSE InterpretLines(rules \o done.rules, rule_objects, Tail(lines), hdrs)

\* KeywordRules.interpret_rules(hdrs): the new object and the exception raised
interpret_rules(self, arg) ==
  LET r == InterpretLines(self.rules, self.rule_objects, SpecLines(self.rule_specs),
                          NormaliseHdrs(arg))
  IN  [self |-> [self EXCEPT !.rules = r.rules], exc |-> r.exc]

\* r not in self.rules, by tuple equality
NotInRules(r, rules) == \A i \in 1..Len(rules) : rules[i] # r

\* merge as it would be with self.rules.extend(kwrules): nothing filtered
merge_extend_all(self, kwrules) == [self EXCEPT !.rules = self.rules \o kwrules]

\* merge as it would be if a rule were also skipped when already collected in k
RECURSIVE DistinctNew(_, _)
DistinctNew(kwrules, seen) ==
  IF Len(kwrules) = 0 THEN << >>
  ELSE IF \E i \in 1..Len(seen) : seen[i] = Head(kwrules)
         THEN DistinctNew(Tail(kwrules), seen)
  ELSE << Head(kwrules) >> \o DistinctNew(Tail(kwrules), Append(seen, Head(kwrules)))

merge_dedup_new(self, kwrules) ==
  [self EXCEPT !.rules = self.rules \o DistinctNew(kwrules, self.rules)]

\* KeywordRules.merge(kwrules): kwrules is the list of rules (other.rules when
\* a KeywordRules is passed)
merge(self, kwrules) ==
  LET k == SelectSeq(kwrules, LAMBDA r : NotInRules(r, self.rules))
  IN  [self EXCEPT !.rules = self.rules \o k]


\* ------------------------------------------------------------ reduction pass
\* A metadata instance is a function from its flattened attribute paths to
\* values.  The values of src in the models that have it, in model order.
RECURSIVE Gather(_, _)
Gather(models, src) ==
  IF Len(models) = 0 THEN << >>
  ELSE (IF src \in DOMAIN Head(models) THEN << Head(models)[src] >> ELSE << >>)
       \o Gather(Tail(models), src)

RECURSIVE SumInts(_)
SumInts(vals) == IF Len(vals) = 0 THEN 0 ELSE Head(vals)[2] + SumInts(Tail(vals))

MaxInts(vals) ==
  CHOOSE m \in {vals[i][2] : i \in 1..Len(vals)} : \A i \in 1..Len(vals) : vals[i][2] <= m

MinInts(vals) ==
  CHOOSE m \in {vals[i][2] : i \in 1..Len(vals)} : \A i \in 1..Len(vals) : vals[i][2] >= m

\* min, max, np.min and np.max raise ValueError on an empty sequence
ReduceRaises(fn, vals) == fn \in {"np.max", "np.min", "max", "min"} /\ Len(vals) = 0

\* the registered callable fn applied to a sequence of integer values
Reduce(fn, vals) ==
  CASE fn = "first" -> first(vals)
    [] fn = "last" -> last(vals)
    [] fn = "multi" -> multi(vals)
    [] fn = "np.sum" -> IF Len(vals) = 0 THEN PyFloat(0, 1) ELSE PyInt(SumInts(vals))
    [] fn = "np.mean" -> PyFloat(SumInts(vals), Len(vals))
    [] fn \in {"np.max", "max"} -> PyInt(MaxInts(vals))
    [] fn \in {"np.min", "min"} -> PyInt(MinInts(vals))

\* a compiled rule that carries a reduction function
HasFunc(rule) == Len(rule) = 3 /\ rule[3] # NoFunc

\* the column of one table-column rule: one value per model, None where absent
Column(models, src) ==
  [i \in 1..Len(models) |-> IF src \in DOMAIN models[i] THEN models[i][src] ELSE None]

\* blender.metablender(models, rules): the merged-value mapping (the last rule
\* for a target wins), the table columns in rule order, the exception raised
metablender(models, rules) ==
  LET reducing == {i \in 1..Len(rules) : HasFunc(rules[i])}
      targets == {rules[i][2] : i \in reducing}
      lastFor(t) == CHOOSE i \in reducing :
                      rules[i][2] = t /\ \A j \in reducing : rules[j][2] = t => j <= i
      cols == SelectSeq(rules, LAMBDA r : ~HasFunc(r))
  IN  [exc |-> IF \E i \in reducing : ReduceRaises(rules[i][3], Gather(models, rules[i][1]))
                 THEN "ValueError" ELSE "",
       fbdict |-> [t \in targets |->
                     Reduce(rules[lastFor(t)][3], Gather(models, rules[lastFor(t)][1]))],
       fbtab |-> [i \in 1..Len(cols) |-> <<cols[i][2], Column(models, cols[i][1])>>]]

\* the condition under which apply overwrites attr of the copy
Overwrites(attr, fbdict) == Contains(s_meta, attr) /\ attr \in DOMAIN fbdict

\* apply as it would be without the update loop: the bare copy is returned
apply_copy_only(self, models) ==
  LET mb == metablender(models, self.rules)
  IN  [exc |-> mb.exc,
       new_model |-> IF mb.exc # "" THEN << >> ELSE models[1],
       new_table |-> IF mb.exc = "" /\ Len(mb.fbtab) > 0 THEN mb.fbtab ELSE None,
       fbdict |-> IF mb.exc # "" THEN << >> ELSE mb.fbdict,
       models |-> models]

\* apply as it would be with new_model.update(fbdict), the line the code has
\* commented out: every merged value is written, present in the copy or not
apply_update_all(self, models) ==
  LET mb == metablender(models, self.rules)
      template == models[1]
  IN  [exc |-> mb.exc,
       new_model |-> IF mb.exc # "" THEN << >>
                     ELSE [attr \in DOMAIN template \cup DOMAIN mb.fbdict |->
                             IF attr \in DOMAIN mb.fbdict THEN mb.fbdict[attr]
                             ELSE template[attr]],
       new_table |-> IF mb.exc = "" /\ Len(mb.fbtab) > 0 THEN mb.fbtab ELSE None,
       fbdict |-> IF mb.exc # "" THEN << >> ELSE mb.fbdict,
       models |-> models]

\* KeywordRules.apply(models) for a non-empty list of models: the exception
\* raised or the returned (new_model, new_table), the merged-value mapping the
\* reduction pass returned, and the models as the call leaves them (new_model
\* is a copy, so assigning to it leaves models[0] alone)
apply(self, models) ==
  LET mb == metablender(models, self.rules)
      template == models[1]
  IN  IF mb.exc # ""
        THEN [exc |-> mb.exc, new_model |-> << >>, new_table |-> None, fbdict |-> << >>,
              models |-> models]
      ELSE [exc |-> "",
            new_model |-> [attr \in DOMAIN template |->
                             IF Overwrites(attr, mb.fbdict) THEN mb.fbdict[attr]
                             ELSE template[attr]],
            new_table |-> IF Len(mb.fbtab) > 0 THEN mb.fbtab ELSE None,
            fbdict |-> mb.fbdict,
            models |-> models]


\* ------------------------------------------------------------------- state
VARIABLES
  kr,        \* the KeywordRules objects: name -> [rule_specs, rule_objects, rules]
  call,      \* the last KeywordRules call: [op, obj, src, arg]
  ret,       \* what that call raised and, for apply, returned
  models,    \* the metadata instances the caller holds, in order
  results,   \* _build_schema_rules_dict: the OrderedDict being filled by the walk
  visited,   \* the nodes the walk has passed to build_rules_dict, with what each did
  fcall,     \* a call of a module-level function: [fn, kind, arg, out]
  ami,       \* AmiAnalyzeStep.process: the run's inputs and what it did
  kwi        \* one KwRule taken through a list of headers: [kwr, hdrs, done, resolved_at]

vars == <<kr, call, ret, models, results, visited, fcall, ami, kwi>>

\* ------------------------------------------------------------------ bounds
MaxWalk == 3

MaxRules == 4

MaxModels == 2

\* sequences over S of length lo..hi
SeqsOf(S, lo, hi) == UNION {[1..n -> S] : n \in lo..hi}

p_meta_a == <<s_meta, s_a>>

p_meta_b == <<s_meta, s_b>>

a_meta_a == Join(p_meta_a)

a_meta_b == Join(p_meta_b)

\* schema nodes: meta.a with blend_rule 'sum'; an anyOf branch of meta.a with
\* blend_table and fits_keyword 'KW'; meta.b with an unregistered blend_rule;
\* meta.rule with blend_table
node_a_sum == <<Subschema(FALSE, n_sum, FALSE, FALSE, s_empty), p_meta_a>>

node_a_tab == <<Subschema(FALSE, s_empty, TRUE, TRUE, s_KW), <<s_meta, s_a, s_anyOf>>>>

node_b_bogus == <<Subschema(FALSE, s_bogus, FALSE, FALSE, s_empty), p_meta_b>>

node_rule_tab == <<Subschema(FALSE, s_empty, TRUE, FALSE, s_empty), <<s_meta, s_rule>>>>

\* the walks of the schemas of the models the rule sets are built from
Schemas ==
  { <<node_a_sum>>, <<node_a_tab, node_a_sum>>, <<node_b_bogus, node_rule_tab>> }

KRs == {"self", "other"}

HdrArgs == { <<"single", "H1">>, <<"list", << >>>>, <<"tuple", <<"H1", "H2">>>> }

\* lists of compiled rules a caller may hand to merge
r_data_sum == <<s_data, s_data, "np.sum">>

r_a_first == <<a_meta_a, a_meta_a, "first">>

r_b_col == <<a_meta_b, s_KW>>

RawLists == { <<r_data_sum>>, <<r_a_first>>, <<r_b_col, r_data_sum>> }

Vals == {PyInt(10), PyInt(20)}

FlatKeys == {a_meta_a, s_data}

\* every instance has the data array; meta.a may be unset
Models == UNION {[K -> Vals] : K \in {FlatKeys, {s_data}}}

ModelLists == SeqsOf(Models, 1, MaxModels)

NoRet ==
  [exc |-> "", new_model |-> << >>, new_table |-> None, fbdict |-> << >>, models |-> << >>]

NoCall == [op |-> "", obj |-> "", src |-> "", arg |-> << >>]

IdleSchema == results = << >> /\ visited = << >>

IdleFuncs == fcall = [fn |-> "", kind |-> "", arg |-> << >>, out |-> << >>]

IdleAmi == ami = [pc |-> "idle"]

IdleKw == kwi = [done |-> 0]

IdleRules == kr = << >> /\ call = NoCall /\ ret = NoRet /\ models = << >>

\* ------------------------------------------------- KeywordRules: the actions
\* every object is constructed from a model of the same schema
Init ==
  /\ \E walk \in Schemas : kr = [o \in KRs |-> KeywordRules(walk)]
  /\ call = NoCall
  /\ ret = NoRet
  /\ models = << >>
  /\ IdleSchema /\ IdleFuncs /\ IdleAmi /\ IdleKw

InterpretRules(o, arg) ==
  LET r == interpret_rules(kr[o], arg)
  IN  /\ Len(r.self.rules) <= MaxRules
      /\ kr' = [kr EXCEPT ![o] = r.self]
      /\ call' = [op |-> "interpret_rules", obj |-> o, src |-> "", arg |-> << >>]
      /\ ret' = [NoRet EXCEPT !.exc = r.exc]
      /\ UNCHANGED <<models, results, visited, fcall, ami, kwi>>

\* merge(kwrules) with a KeywordRules instance; p = o is merge(self)
MergeRules(o, p) ==
  LET s == merge(kr[o], kr[p].rules)
  IN  /\ Len(s.rules) <= MaxRules
      /\ kr' = [kr EXCEPT ![o] = s]
      /\ call' = [op |-> "merge", obj |-> o, src |-> p, arg |-> kr[p].rules]
      /\ ret' = NoRet
      /\ UNCHANGED <<models, results, visited, fcall, ami, kwi>>

\* merge(kwrules) with a raw list of compiled rules
MergeRaw(o, raw) ==
  LET s == merge(kr[o], raw)
  IN  /\ Len(s.rules) <= MaxRules
      /\ kr' = [kr EXCEPT ![o] = s]
      /\ call' = [op |-> "merge", obj |-> o, src |-> "list", arg |-> raw]
      /\ ret' = NoRet
      /\ UNCHANGED <<models, results, visited, fcall, ami, kwi>>

Apply(o) ==
  LET r == apply(kr[o], models)
  IN  /\ kr' = kr
      /\ call' = [op |-> "apply", obj |-> o, src |-> "", arg |-> << >>]
      /\ ret' = [r EXCEPT !.models = << >>]
      /\ models' = r.models
      /\ UNCHANGED <<results, visited, fcall, ami, kwi>>

\* rule sets are built per model by interpret_rules and merged into the first
Next ==
  \/ \E o \in KRs, arg \in HdrArgs : InterpretRules(o, arg)
  \/ \E p \in KRs : MergeRules("self", p)
  \/ \E raw \in RawLists : MergeRaw("self", raw)

Spec == Init /\ [][Next]_vars

\* the reduction pass over one rule set
InitApply ==
  /\ \E walk \in Schemas : kr = [o \in {"self"} |-> KeywordRules(walk)]
  /\ call = NoCall
  /\ ret = NoRet
  /\ models \in ModelLists
  /\ IdleSchema /\ IdleFuncs /\ IdleAmi /\ IdleKw

\* interpret_rules is given the headers of the models, as a list
NextApply ==
  \/ InterpretRules("self", <<"list", <<"H1", "H2">>>>)
  \/ \E raw \in RawLists : MergeRaw("self", raw)
  \/ Apply("self")

SpecApply == InitApply /\ [][NextApply]_vars


\* --------------------------------------- _build_schema_rules_dict: the walk
\* the nodes walk_schema may pass to the callback
WalkPaths ==
  { p_meta_a, <<s_meta, s_a, s_anyOf>>, <<s_meta, s_a, s_oneOf>>, p_meta_b,
    <<s_meta, s_items, s_a>>, <<s_data>> }

WalkNodes ==
  { <<Subschema(props, kwrule, tab[1], tab[2], s_KW), path>> :
      props \in BOOLEAN, kwrule \in {s_empty, n_last, n_first},
      tab \in {<<FALSE, FALSE>>, <<TRUE, FALSE>>, <<TRUE, TRUE>>}, path \in WalkPaths }

InitSchema ==
  /\ results = << >>
  /\ visited = << >>
  /\ IdleRules /\ IdleFuncs /\ IdleAmi /\ IdleKw

\* walk_schema calls build_rules_dict on the next node; visited keeps, for
\* every node that passed the guards, its attribute path, which branch set
\* rule_spec, and whether the node declared blend_table
Visit(node) ==
  LET subschema == node[1]
      path == node[2]
      attr == AttrOf(path)
  IN  /\ Len(visited) < MaxWalk
      /\ results' = build_rules_dict(results, subschema, path)
      /\ visited' =
           IF Recorded(subschema, path)
             THEN Append(visited, [attr |-> attr,
                                   kind |-> RuleSpecOf(results, subschema, attr).kind,
                                   table |-> subschema.blend_table])
             ELSE Append(visited, [attr |-> s_empty, kind |-> "ignored", table |-> FALSE])
      /\ UNCHANGED <<kr, call, ret, models, fcall, ami, kwi>>

NextSchema == \E node \in WalkNodes : Visit(node)

SpecSchema == InitSchema /\ [][NextSchema]_vars


\* ------------------------------------------- the module-level functions
MaxVals == 3

MaxStr == 5

FuncVals == {PyInt(1), PyInt(2), None, PyStr(s_MULTIPLE)}

ValLists == SeqsOf(FuncVals, 0, MaxVals)

\* target names of table-column specs
Letters == {"r", "u", "l", "e"}

TargetNames == SeqsOf(Letters, 0, MaxStr) \cup {s_KW, a_meta_a}

\* rule names: the registered ones, an unregistered one, the empty string
RuleNames == DOMAIN blender_funcs \cup {s_bogus, s_empty}

LineSpecs ==
  {DictSpec({s_rule}, name) : name \in RuleNames}
    \cup {DictSpec({}, s_empty)}
    \cup {StrSpec(s) : s \in TargetNames}

Attrs == {a_meta_a, a_meta_b}

\* the inputs are drawn first; each action applies one function to them
InitFuncs ==
  /\ \/ \E vals \in ValLists : fcall = [fn |-> "", kind |-> "vals", arg |-> vals, out |-> << >>]
     \/ \E attr \in Attrs, line_spec \in LineSpecs :
          fcall = [fn |-> "", kind |-> "line", arg |-> Line(attr, line_spec), out |-> << >>]
  /\ IdleRules /\ IdleSchema /\ IdleAmi /\ IdleKw

CallMulti ==
  /\ fcall.fn = "" /\ fcall.kind = "vals"
  /\ fcall' = [fcall EXCEPT !.fn = "multi", !.out = multi(fcall.arg)]
  /\ UNCHANGED <<kr, call, ret, models, results, visited, ami, kwi>>

CallFirst ==
  /\ fcall.fn = "" /\ fcall.kind = "vals"
  /\ fcall' = [fcall EXCEPT !.fn = "first", !.out = first(fcall.arg)]
  /\ UNCHANGED <<kr, call, ret, models, results, visited, ami, kwi>>

CallLast ==
  /\ fcall.fn = "" /\ fcall.kind = "vals"
  /\ fcall' = [fcall EXCEPT !.fn = "last", !.out = last(fcall.arg)]
  /\ UNCHANGED <<kr, call, ret, models, results, visited, ami, kwi>>

CallInterpretAttrLine ==
  /\ fcall.fn = "" /\ fcall.kind = "line"
  /\ fcall' = [fcall EXCEPT !.fn = "interpret_attr_line",
                            !.out = interpret_attr_line(fcall.arg.attr, fcall.arg.spec)]
  /\ UNCHANGED <<kr, call, ret, models, results, visited, ami, kwi>>

CallInterpretEntry(hdr) ==
  /\ fcall.fn = "" /\ fcall.kind = "line"
  /\ fcall' = [fcall EXCEPT !.fn = "interpret_entry",
                            !.out = interpret_entry(fcall.arg, hdr)]
  /\ UNCHANGED <<kr, call, ret, models, results, visited, ami, kwi>>

NextFuncs ==
  \/ CallMulti
  \/ CallFirst
  \/ CallLast
  \/ CallInterpretAttrLine
  \/ \E hdr \in {"H1", "H2"} : CallInterpretEntry(hdr)

SpecFuncs == InitFuncs /\ [][NextFuncs]_vars

\* ------------------------------------------------ AmiAnalyzeStep.process
MaxOversample == 4

MaxRuns == 3

RefFiles == {"N/A", "jwst_niriss_throughput_0001.fits"}

\* ami_analyze.apply_LG_plus: an even oversample is refused
apply_LG_plus(oversample) ==
  IF oversample % 2 = 0 THEN "ValueError: Oversample value must be an odd integer."
  ELSE ""

\* process(input): floats_ok says whether psf_offset and rotation_search
\* split into floats, readable whether DataModel(input) succeeds, reffile is
\* what a lookup of the throughput reference file would return.  The result
\* is the exception raised, whether apply_LG_plus was called, and
\* result.meta.cal_step.ami_analyze.
process(floats_ok, readable, reffile, oversample) ==
  IF ~floats_ok
    THEN [exc |-> "ValueError: could not convert string to float",
          lg_called |-> FALSE, cal_step |-> ""]
  ELSE IF ~readable
    THEN [exc |-> "RuntimeError: Input unable to be read into a DataModel.",
          lg_called |-> FALSE, cal_step |-> ""]
  ELSE IF apply_LG_plus(oversample) # ""
    THEN [exc |-> apply_LG_plus(oversample), lg_called |-> TRUE, cal_step |-> ""]
  ELSE [exc |-> "", lg_called |-> TRUE, cal_step |-> "COMPLETE"]

InitAmi ==
  /\ ami = [pc |-> "idle"]
  /\ IdleRules /\ IdleSchema /\ IdleFuncs /\ IdleKw

\* one run of the step; runs and lg_calls count the runs and the calls of
\* apply_LG_plus so far
Process(floats_ok, readable, reffile, oversample) ==
  LET r == process(floats_ok, readable, reffile, oversample)
      runs == IF ami.pc = "idle" THEN 0 ELSE ami.runs
      lg_calls == IF ami.pc = "idle" THEN 0 ELSE ami.lg_calls
  IN  /\ runs < MaxRuns
      /\ ami' = [pc |-> "done", floats_ok |-> floats_ok, readable |-> readable,
                 reffile |-> reffile, oversample |-> oversample,
                 exc |-> r.exc, lg_called |-> r.lg_called, cal_step |-> r.cal_step,
                 runs |-> runs + 1,
                 lg_calls |-> lg_calls + (IF r.lg_called THEN 1 ELSE 0)]
      /\ UNCHANGED <<kr, call, ret, models, results, visited, fcall, kwi>>

NextAmi ==
  \E floats_ok \in BOOLEAN, readable \in BOOLEAN, reffile \in RefFiles,
     oversample \in 1..MaxOversample : Process(floats_ok, readable, reffile, oversample)

SpecAmi == InitAmi /\ [][NextAmi]_vars


\* ------------------------------------ one KwRule over a list of headers
MaxHdrs == 2

\* a header is a metadata instance; it carries the keyword attr when attr is
\* one of its flattened paths
HdrLists == SeqsOf(Models, 1, MaxHdrs)

\* the raw specs a KwRule is built from
KwLines ==
  {Line(attr, spec) :
     attr \in Attrs,
     spec \in {DictSpec({s_rule}, n_first), DictSpec({s_rule}, s_bogus),
               DictSpec({s_rule}, s_empty), StrSpec(s_KW), StrSpec(s_rule)}}

\* kwr = KwRule(rule), before the loop over hdrs
InitKw ==
  /\ \E line \in KwLines, hdrs \in HdrLists :
       kwi = [kwr |-> KwRule(line), hdrs |-> hdrs, done |-> 0, resolved_at |-> 0]
  /\ IdleRules /\ IdleSchema /\ IdleFuncs /\ IdleAmi

\* the next pass of "for hdr in hdrs: kwr.interpret(hdr)"; the loop ends when
\* interpret raises.  resolved_at is the position of the header at which
\* kwr.rules became non-empty.
InterpretNext ==
  LET i == kwi.done + 1
      after == KwRule_interpret(kwi.kwr, kwi.hdrs[i])
  IN  /\ kwi.done < Len(kwi.hdrs)
      /\ kwi.kwr.exc = ""
      /\ kwi' = [kwi EXCEPT !.kwr = after,
                            !.done = i,
                            !.resolved_at =
                              IF Len(kwi.kwr.rules) = 0 /\ Len(after.rules) > 0
                                THEN i ELSE @]
      /\ UNCHANGED <<kr, call, ret, models, results, visited, fcall, ami>>

NextKw == InterpretNext

SpecKw == InitKw /\ [][NextKw]_vars

\* ================================================================ properties
IsPrefix(s, l) == Len(s) <= Len(l) /\ SubSeq(l, 1, Len(s)) = s

Occurs(r, l) == \E i \in 1..Len(l) : l[i] = r

\* the elements of l that do not occur in old, in the order they have in l
RECURSIVE NotIn(_, _)
NotIn(l, old) ==
  IF Len(l) = 0 THEN << >>
  ELSE (IF Occurs(Head(l), old) THEN << >> ELSE << Head(l) >>) \o NotIn(Tail(l), old)

\* C1: after any sequence of interpret_rules and merge calls, self.rules of a
\* rule set never contains two equal tuples.  The code never appends to
\* rule_objects, so its duplicate test never fires and a second
\* interpret_rules compiles every raw spec again.
C1_NoDuplicateRules ==
  \A o \in DOMAIN kr : \A i, j \in 1..Len(kr[o].rules) :
    i # j => kr[o].rules[i] # kr[o].rules[j]

\* C6: merging a rule set into itself leaves self.rules unchanged (same
\* elements, same order, same length), whatever state the rule set is in.
C6_MergeSelfUnchanged ==
  [][(call'.op = "merge" /\ call'.src = call'.obj)
       => kr'[call'.obj].rules = kr[call'.obj].rules]_vars

\* C6 witness: merge(self) has run on a rule set that holds several rules,
\* two of them equal.
C6_Witness ==
  /\ call.op = "merge" /\ call.src = "self" /\ call.obj = "self"
  /\ Len(kr["self"].rules) >= 3
  /\ call.arg = kr["self"].rules
  /\ \E i, j \in 1..Len(call.arg) : i # j /\ call.arg[i] = call.arg[j]

\* C7: every interpret_rules or merge call keeps the previous self.rules as
\* an unchanged prefix, and merge(other) appends exactly the rules of other
\* that were not in self.rules before the call, in other's order.
C7_RulesAccumulate ==
  [][/\ \A o \in DOMAIN kr : IsPrefix(kr[o].rules, kr'[o].rules)
     /\ call'.op = "merge"
          => kr'[call'.obj].rules =
               kr[call'.obj].rules \o NotIn(call'.arg, kr[call'.obj].rules)]_vars

\* C7 witness: merge was given another rule set that holds one rule twice;
\* the receiving rule set held a different rule before and now ends with both
\* copies.
C7_Witness ==
  /\ call.op = "merge" /\ call.src = "other" /\ call.obj = "self"
  /\ Len(call.arg) = 2 /\ call.arg[1] = call.arg[2]
  /\ Len(kr["self"].rules) = 3
  /\ kr["self"].rules[1] # call.arg[1]
  /\ SubSeq(kr["self"].rules, 2, 3) = call.arg


\* apply has returned (rather than raised)
Applied == call.op = "apply" /\ ret.exc = ""

\* C4 as stated: in the instance apply returns, every flattened path of the
\* copy of models[0] that has a merged value holds that merged value, also
\* for rules added through merge().
C4_AllMergedValuesWritten ==
  Applied => \A attr \in DOMAIN ret.new_model :
               attr \in DOMAIN ret.fbdict => ret.new_model[attr] = ret.fbdict[attr]

\* C4 amended: every flattened path of the copy of models[0] that contains
\* the substring 'meta' and has a merged value holds that merged value; a
\* path without 'meta' in it keeps the value it has in models[0].
C4_MetaMergedValuesWritten ==
  Applied => \A attr \in DOMAIN ret.new_model :
               /\ (Contains(s_meta, attr) /\ attr \in DOMAIN ret.fbdict)
                    => ret.new_model[attr] = ret.fbdict[attr]
               /\ ~Contains(s_meta, attr) => ret.new_model[attr] = models[1][attr]

\* C4 witness: a 'sum' rule over meta.a = 10 and 20 in two models has put 30
\* into the result, which also carries the untouched data path although a
\* merged value exists for it.
C4_Witness ==
  /\ Applied
  /\ Len(models) = 2
  /\ a_meta_a \in DOMAIN models[1] /\ models[1][a_meta_a] = PyInt(10)
  /\ a_meta_a \in DOMAIN models[2] /\ models[2][a_meta_a] = PyInt(20)
  /\ a_meta_a \in DOMAIN ret.fbdict /\ ret.fbdict[a_meta_a] = PyInt(30)
  /\ ret.new_model[a_meta_a] = PyInt(30)
  /\ s_data \in DOMAIN ret.fbdict /\ ret.fbdict[s_data] # models[1][s_data]

RECURSIVE RecordedCount(_, _)
RecordedCount(vs, attr) ==
  IF Len(vs) = 0 THEN 0
  ELSE (IF Head(vs).attr = attr
          THEN (IF Head(vs).kind \in {"explicit", "default"} THEN 1 ELSE 0)
               + (IF Head(vs).table THEN 1 ELSE 0)
          ELSE 0)
       + RecordedCount(Tail(vs), attr)

\* C2 as stated: whatever the order of the walk, if any visited leaf of a
\* path declares blend_rule, no implicit default {path: {rule: 'first'}} was
\* inserted for that path.
C2_ExplicitExcludesDefault ==
  \A i, j \in 1..Len(visited) :
    (visited[i].kind = "explicit" /\ visited[j].attr = visited[i].attr)
      => visited[j].kind # "default"

\* C2 amended: the default is inserted only when nothing has been recorded
\* for the path yet, so it is the first entry of the path's list and no leaf
\* visited after a recorded one inserts it; an explicit blend_rule on a leaf
\* visited later is appended after a default that is already there.  The
\* list of a path holds exactly what its visits recorded.
C2_DefaultOnlyWhenEmpty ==
  /\ \A j \in 1..Len(visited) :
       visited[j].kind = "default"
         => /\ \A i \in 1..(j - 1) : visited[i].attr # visited[j].attr
            /\ DictGet(results, visited[j].attr, << >>)[1]
                 = Line(visited[j].attr, DictSpec({s_rule}, n_first))
  /\ \A i, j \in 1..Len(visited) :
       (i < j /\ visited[i].kind = "explicit" /\ visited[j].attr = visited[i].attr)
         => visited[j].kind # "default"
  /\ \A j \in 1..Len(visited) :
       visited[j].kind # "ignored"
         => Len(DictGet(results, visited[j].attr, << >>))
              = RecordedCount(visited, visited[j].attr)

\* C2 witness: a leaf with blend_rule was visited first, a leaf of the same
\* path without blend_rule after it, and the path's list holds the explicit
\* spec alone.
C2_Witness ==
  /\ Len(visited) >= 2
  /\ visited[1].kind = "explicit"
  /\ visited[2].attr = visited[1].attr
  /\ visited[2].kind = "none" /\ ~visited[2].table
  /\ DictGet(results, visited[1].attr, << >>)
       = << Line(visited[1].attr, DictSpec({s_rule}, n_last)) >>

\* a call that interpreted a raw spec
Interpreted == fcall.fn \in {"interpret_attr_line", "interpret_entry"}

RuleSpecArg == fcall.arg.spec.type = "dict" /\ s_rule \in fcall.arg.spec.keys

\* C3 as stated: {path: {'rule': name}} with an unregistered name compiles,
\* without raising, to the single 2-tuple (path, path); with a registered
\* name to the single 3-tuple (path, path, blender_funcs[name]).
C3_UnregisteredGivesPair ==
  (Interpreted /\ RuleSpecArg) =>
    /\ fcall.out.exc = ""
    /\ fcall.out.rules =
         IF fcall.arg.spec.val \in DOMAIN blender_funcs
           THEN << <<fcall.arg.attr, fcall.arg.attr, blender_funcs[fcall.arg.spec.val]>> >>
           ELSE << <<fcall.arg.attr, fcall.arg.attr>> >>

\* C3 amended: a non-empty unregistered name compiles, without raising, to
\* the single 3-tuple (path, path, None); the empty name to the single
\* 2-tuple (path, path); a registered name to (path, path, blender_funcs[name]).
C3_UnregisteredGivesNoneTriple ==
  (Interpreted /\ RuleSpecArg) =>
    /\ fcall.out.exc = ""
    /\ fcall.out.rules =
         IF fcall.arg.spec.val \in DOMAIN blender_funcs
           THEN << <<fcall.arg.attr, fcall.arg.attr, blender_funcs[fcall.arg.spec.val]>> >>
         ELSE IF fcall.arg.spec.val = s_empty
           THEN << <<fcall.arg.attr, fcall.arg.attr>> >>
         ELSE << <<fcall.arg.attr, fcall.arg.attr, NoFunc>> >>

\* C3 witness: {'meta.a': {'rule': 'bogus'}} was interpreted.
C3_Witness ==
  /\ fcall.fn = "interpret_attr_line" /\ RuleSpecArg
  /\ fcall.arg.attr = a_meta_a /\ fcall.arg.spec.val = s_bogus
  /\ fcall.out.rules = << <<a_meta_a, a_meta_a, NoFunc>> >>

C10_StringTargetGivesPair ==
  (Interpreted /\ fcall.arg.spec.type = "str") =>
    /\ fcall.out.exc = ""
    /\ fcall.out.rules = << <<fcall.arg.attr, fcall.arg.spec.val>> >>

\* C8: in a run that gets as far as the lookup of the throughput reference
\* file (the parameters parse and the input opens), a lookup result of 'N/A'
\* makes process raise the RuntimeError of that name, without calling
\* apply_LG_plus and without setting cal_step.ami_analyze to 'COMPLETE'.
\* The lookup and its check are commented out in the code.
C8_NoReffileFails ==
  (ami.pc = "done" /\ ami.floats_ok /\ ami.readable /\ ami.reffile = "N/A") =>
    /\ ami.exc = "RuntimeError: No throughput reference file found. ami_analyze cannot continue."
    /\ ~ami.lg_called
    /\ ami.cal_step # "COMPLETE"


\* the keyword of the KwRule is one of the flattened paths of hdr
HasKeyword(hdr) == kwi.kwr.rule_spec.attr \in DOMAIN hdr

\* C11: once a KwRule holds a non-empty rules list every later interpret(hdr)
\* leaves it unchanged, and over [H1, H2] where H1 lacks the keyword and H2
\* has it the compiled rule is resolved from H2, the first header for which
\* interpretation produces a rule, without a failure.  interpret_entry never
\* reads hdr, so the rule is compiled at H1 whether it has the keyword or not.
C11_FirstSuccessWins ==
  /\ [][(kwi.done > 0 /\ Len(kwi.kwr.rules) > 0) => kwi'.kwr.rules = kwi.kwr.rules]_vars
  /\ []((/\ kwi.done = 2 /\ Len(kwi.hdrs) = 2
         /\ ~HasKeyword(kwi.hdrs[1]) /\ HasKeyword(kwi.hdrs[2]))
          => /\ kwi.kwr.exc = ""
             /\ Len(kwi.kwr.rules) > 0
             /\ kwi.resolved_at = 2)
====
